---- MODULE Spec2Model ----
(***************************************************************************)
(* A model of the Mycroft camera skill (CameraSkill, src/__init__.py).     *)
(*                                                                         *)
(* The skill is an object whose methods are run by the host, one event at  *)
(* a time.  A method is modelled as an operator from the object's state    *)
(* (a record `s`) to the state it leaves; the calls it makes on the host   *)
(* (speak_dialog, the gui) and on the CEC adapter (remote) are appended to *)
(* s.calls in program order, and an AttributeError raised by reading an    *)
(* attribute that was never assigned is kept in s.raised and ends the      *)
(* event.  One action of Next is one host event, handled to its end.       *)
(***************************************************************************)
EXTENDS Integers, Sequences, FiniteSets, TLC

\* ------------------------------------------------------------------ bounds
NumCams     == 2    \* camera names the host configuration may hold
MaxAdapters == 2    \* CEC adapters DetectAdapters may report
NumDevices  == 2    \* logical addresses 0..NumDevices-1 may be active

\* ------------------------------------------------------ values and inputs
None    == "None"        \* Python None
PyFalse == "False"       \* Python False, the default of data.get("view.short", False)
IdleTrue == -1           \* the object True held by `idle` (told from any int by `is`)

ShortIdle   == 60     \* idle of a "view.short" intent
DefaultIdle == 60     \* idle of handle_stream
SleepMargin == 2      \* show_stream sleeps idle - 2
LogicalAddresses == 16                \* setup_cec scans range(0, 16)
TV == 0                               \* display_id, 0 = 'TV'
CEC_DEVICE_TYPE_RECORDING_DEVICE == 1
CEC_DEVICE_TYPE_RESERVED == 2

Falsy == {None, PyFalse, ""}
Truthy(v) == v \notin Falsy

AllNames == <<"door", "garden", "garage", "pool">>
CamNames == {AllNames[i] : i \in 1..NumCams}
Unconfigured == "attic"                  \* a name that is never a key of cams
UrlOf(n) == "rtsp://" \o n

\* host configurations: any subset of the names, each with its URL or an empty one
CamConfigs ==
    UNION { {f \in [S -> {UrlOf(n) : n \in S} \cup {""}] :
                \A n \in S : f[n] \in {UrlOf(n), ""}} : S \in SUBSET CamNames }

Homes == {"/home/mycroft"}
expanduser(home) == home \o "/Pictures"

\* dict helpers
EmptyDict == [k \in {} |-> None]
Get(d, k, default) == IF k \in DOMAIN d THEN d[k] ELSE default
Put(d, k, v) == [y \in (DOMAIN d) \cup {k} |-> IF y = k THEN v ELSE d[y]]

\* libcec power status codes and their names
PowerCodes == {0, 1, 3, 153}       \* the codes the adapter is let to return
PowerStatusToString(code) ==
    CASE code = 0 -> "on"
      [] code = 1 -> "standby"
      [] code = 2 -> "in transition from standby to on"
      [] code = 3 -> "in transition from on to standby"
      [] OTHER    -> "unknown"

VARIABLES
    pc,              \* "constructed" until the host has run initialize
    cams,            \* self.cams
    save_folder,     \* self.save_folder
    camera_mode,     \* self.camera_mode
    display,         \* self.display
    display_id,      \* self.display_id
    display_status,  \* self.display_status
    assigned,        \* the attributes among display, display_id, display_status, remote that exist
    registered,      \* GUI and bus events the skill has a handler for
    gui,             \* the GUI session data (self.gui[...])
    event,           \* the host event handled last
    message,         \* message.data of that event
    calls,           \* what the handling of that event called, in order
    raised,          \* the unset attribute it failed on, or "none"
    lastPowerRead,   \* history: code returned to the latest show_stream (-1: none)
    streamSinceStandby  \* history: show_stream has run since the latest StandbyDevices

vars == <<pc, cams, save_folder, camera_mode, display, display_id, display_status,
          assigned, registered, gui, event, message, calls, raised,
          lastPowerRead, streamSinceStandby>>

\* --------------------------------------------------------- the call trace
Call(op, arg)  == [op |-> op, arg |-> arg, internal |-> FALSE]
CallRet(op, arg, ret) == [op |-> op, arg |-> arg, internal |-> FALSE, ret |-> ret]
Enter(s, m, arg) == [s EXCEPT !.calls = Append(@, [op |-> m, arg |-> arg, internal |-> TRUE])]
Emit(s, c)     == [s EXCEPT !.calls = Append(@, c)]
Raise(s, attr) == [s EXCEPT !.raised = attr]

Self == [cams |-> cams, save_folder |-> save_folder, camera_mode |-> camera_mode,
         display |-> display, display_id |-> display_id,
         display_status |-> display_status, assigned |-> assigned,
         registered |-> registered, gui |-> gui,
         calls |-> <<>>, raised |-> "none"]

\* ------------------------------------------------------------ the methods

\* variant: the comparison with "standby" inverted
handle_camera_completed_Inverted(s) ==
    LET s0 == Enter(s, "handle_camera_completed", None)
        s1 == Emit(s0, Call("remove_page", "Camera.qml"))
        s2 == Emit(s1, Call("release", None))
    IN  IF "display_status" \notin s2.assigned THEN Raise(s2, "display_status")
        ELSE IF s2.display_status # "standby"
             THEN IF "remote" \notin s2.assigned THEN Raise(s2, "remote")
                  ELSE IF "display_id" \notin s2.assigned THEN Raise(s2, "display_id")
                  ELSE Emit(s2, Call("StandbyDevices", s2.display_id))
             ELSE s2

\* handle_camera_completed: close the view, then standby if the display was in standby
handle_camera_completed(s) ==
    LET s0 == Enter(s, "handle_camera_completed", None)
        s1 == Emit(s0, Call("remove_page", "Camera.qml"))
        s2 == Emit(s1, Call("release", None))
    IN  IF "display_status" \notin s2.assigned THEN Raise(s2, "display_status")
        ELSE IF s2.display_status = "standby"
             THEN IF "remote" \notin s2.assigned THEN Raise(s2, "remote")
                  ELSE IF "display_id" \notin s2.assigned THEN Raise(s2, "display_id")
                  ELSE Emit(s2, Call("StandbyDevices", s2.display_id))
             ELSE s2

\* stop: the system stop command
stop(s) == handle_camera_completed(Enter(s, "stop", None))

\* variant: the second assignment lost its `if activity == "generic"`
handle_camera_activity_Unguarded(s, activity) ==
    LET s0 == Enter(s, "handle_camera_activity", activity)
        s1 == [s0 EXCEPT !.gui = Put(@, "save_path", s0.save_folder)]
        s2 == IF activity = "singleshot"
              THEN [s1 EXCEPT !.gui = Put(@, "singleshot_mode", TRUE)] ELSE s1
        s3 == [s2 EXCEPT !.gui = Put(@, "singleshot_mode", FALSE)]
    IN  Emit(s3, Call("show_page", "Camera.qml"))

\* handle_camera_activity: set the mode and show the camera page
handle_camera_activity(s, activity) ==
    LET s0 == Enter(s, "handle_camera_activity", activity)
        s1 == [s0 EXCEPT !.gui = Put(@, "save_path", s0.save_folder)]
        s2 == IF activity = "singleshot"
              THEN [s1 EXCEPT !.gui = Put(@, "singleshot_mode", TRUE)] ELSE s1
        s3 == IF activity = "generic"
              THEN [s2 EXCEPT !.gui = Put(@, "singleshot_mode", FALSE)] ELSE s2
    IN  Emit(s3, Call("show_page", "Camera.qml"))

take_single_photo(s) == handle_camera_activity(Enter(s, "take_single_photo", None), "singleshot")

open_camera_app(s) == handle_camera_activity(Enter(s, "open_camera_app", None), "generic")

handle_capture_single_shot(s) ==
    LET s0 == Enter(s, "handle_capture_single_shot", None)
        s1 == Emit(s0, Call("speak_dialog", "acknowledge"))
        s2 == [s1 EXCEPT !.gui = Put(@, "singleshot_mode", FALSE)]
    IN  take_single_photo(s2)

handle_open_camera(s) ==
    LET s0 == Enter(s, "handle_open_camera", None)
        s1 == Emit(s0, Call("speak_dialog", "acknowledge"))
        s2 == [s1 EXCEPT !.gui = Put(@, "singleshot_mode", FALSE)]
    IN  handle_camera_activity(s2, "generic")

handle_camera_status(s, data) ==
    LET s0 == Enter(s, "handle_camera_status", None)
        current_status == Get(data, "status", None)
        s1 == IF current_status = "generic"
              THEN [s0 EXCEPT !.gui = Put(@, "singleshot_mode", FALSE)] ELSE s0
        s2 == IF current_status = "imagetaken"
              THEN [s1 EXCEPT !.gui = Put(@, "singleshot_mode", FALSE)] ELSE s1
    IN  IF current_status = "singleshot"
        THEN [s2 EXCEPT !.gui = Put(@, "singleshot_mode", TRUE)] ELSE s2

\* show_stream: read the power status, make this device the active source, show the
\* URL, and for a timed view sleep and close it.  power and ok are what
\* GetDevicePowerStatus and SetActiveSource return.
show_stream(s, cam_url, idle, power, ok) ==
    LET s0 == Enter(s, "show_stream", idle)
    IN  IF "remote" \notin s0.assigned THEN Raise(s0, "remote")
        ELSE IF "display_id" \notin s0.assigned THEN Raise(s0, "display_id")
        ELSE
          LET s1 == Emit(s0, CallRet("GetDevicePowerStatus", s0.display_id, power))
              s2 == [s1 EXCEPT !.display_status = PowerStatusToString(power),
                               !.assigned = @ \cup {"display_status"}]
              s3 == Emit(s2, CallRet("SetActiveSource", CEC_DEVICE_TYPE_RESERVED, ok))
              s4 == IF ok
                    THEN Emit(s3, [op |-> "show_url", arg |-> cam_url, internal |-> FALSE,
                                   override_idle |-> idle])
                    ELSE s3
          IN  IF idle # IdleTrue
              THEN handle_camera_completed(Emit(s4, Call("sleep", idle - SleepMargin)))
              ELSE s4

\* variant: the lookup is cams.setdefault(cam_name, None)
handle_stream_SetDefault(s, data, power, ok) ==
    LET s0 == Enter(s, "handle_stream", None)
        cam_name == Get(data, "utterance", None)
        cam_url == Get(s0.cams, cam_name, None)
        s1 == IF cam_name \in DOMAIN s0.cams THEN s0
              ELSE [s0 EXCEPT !.cams = Put(@, cam_name, None)]
    IN  show_stream(s1, cam_url, DefaultIdle, power, ok)

\* handle_stream: the bus event skill.camera.showcam
handle_stream(s, data, power, ok) ==
    LET s0 == Enter(s, "handle_stream", None)
        cam_name == Get(data, "utterance", None)
        cam_url == Get(s0.cams, cam_name, None)
    IN  show_stream(s0, cam_url, DefaultIdle, power, ok)

\* variant: the display flag is not looked at
handle_get_stream_NoDisplayCheck(s, data, power, ok) ==
    LET s0 == Enter(s, "handle_get_stream", None)
        cam_name == Get(data, "location", None)
        idle == IF Truthy(Get(data, "view.short", PyFalse)) THEN ShortIdle ELSE IdleTrue
    IN  IF ~Truthy(cam_name)
        THEN Emit(s0, Call("speak_dialog", "stream.not_specified"))
        ELSE LET cam_url == Get(s0.cams, cam_name, None)
             IN  IF ~Truthy(cam_url)
                 THEN Emit(s0, [op |-> "speak_dialog", arg |-> "stream.no_config",
                                internal |-> FALSE, cam |-> cam_name])
                 ELSE show_stream(s0, cam_url, idle, power, ok)

\* variant: the URL test is `cam_name not in self.cams`
handle_get_stream_KeyOnly(s, data, power, ok) ==
    LET s0 == Enter(s, "handle_get_stream", None)
    IN  IF "display" \notin s0.assigned THEN Raise(s0, "display")
        ELSE IF s0.display
        THEN LET cam_name == Get(data, "location", None)
                 idle == IF Truthy(Get(data, "view.short", PyFalse))
                         THEN ShortIdle ELSE IdleTrue
             IN  IF ~Truthy(cam_name)
                 THEN Emit(s0, Call("speak_dialog", "stream.not_specified"))
                 ELSE LET cam_url == Get(s0.cams, cam_name, None)
                      IN  IF cam_name \notin DOMAIN s0.cams
                          THEN Emit(s0, [op |-> "speak_dialog", arg |-> "stream.no_config",
                                         internal |-> FALSE, cam |-> cam_name])
                          ELSE show_stream(s0, cam_url, idle, power, ok)
        ELSE Emit(s0, Call("speak_dialog", "display.not.available"))

\* handle_get_stream: the StreamCam intent
handle_get_stream(s, data, power, ok) ==
    LET s0 == Enter(s, "handle_get_stream", None)
    IN  IF "display" \notin s0.assigned THEN Raise(s0, "display")
        ELSE IF s0.display
        THEN LET cam_name == Get(data, "location", None)
                 idle == IF Truthy(Get(data, "view.short", PyFalse))
                         THEN ShortIdle ELSE IdleTrue
             IN  IF ~Truthy(cam_name)
                 THEN Emit(s0, Call("speak_dialog", "stream.not_specified"))
                 ELSE LET cam_url == Get(s0.cams, cam_name, None)
                      IN  IF ~Truthy(cam_url)
                          THEN Emit(s0, [op |-> "speak_dialog", arg |-> "stream.no_config",
                                         internal |-> FALSE, cam |-> cam_name])
                          ELSE show_stream(s0, cam_url, idle, power, ok)
        ELSE Emit(s0, Call("speak_dialog", "display.not.available"))

\* the loop of setup_cec over the logical addresses x..15
RECURSIVE QueryDevices(_, _, _)
QueryDevices(s, addresses, x) ==
    IF x >= LogicalAddresses THEN s
    ELSE IF x \in addresses
    THEN LET q1 == Emit(s,  Call("GetDeviceVendorId", x))
             q2 == Emit(q1, Call("GetDeviceCecVersion", x))
             q3 == Emit(q2, Call("GetDevicePowerStatus", x))
             q4 == Emit(q3, Call("GetDevicePhysicalAddress", x))
             q5 == Emit(q4, Call("IsActiveSource", x))
             q6 == Emit(q5, Call("GetDeviceOSDName", x))
         IN  QueryDevices(q6, addresses, x + 1)
    ELSE QueryDevices(s, addresses, x + 1)

\* variant: the display flag is set before the adapters are counted
setup_cec_FlagFirst(s, adapters, opened, addresses) ==
    LET s0 == Enter(s, "setup_cec", None)
        s1 == Emit(s0, Call("ICECAdapter.Create", CEC_DEVICE_TYPE_RECORDING_DEVICE))
        s2 == [s1 EXCEPT !.assigned = @ \cup {"remote"}]
        s3 == Emit(s2, CallRet("DetectAdapters", None, adapters))
        s4 == [s3 EXCEPT !.display = TRUE, !.assigned = @ \cup {"display"}]
    IN  IF adapters = 0
        THEN Emit(s4, Call("speak_dialog", "display.not.available"))
        ELSE LET s5 == Emit(s4, CallRet("Open", 1, opened))
                 s6 == Emit(s5, CallRet("GetActiveDevices", None, addresses))
                 s7 == QueryDevices(s6, addresses, 0)
             IN  [s7 EXCEPT !.display_id = TV, !.assigned = @ \cup {"display_id"}]

\* setup_cec: adapters is len(DetectAdapters()), opened what Open returns,
\* addresses the set GetActiveDevices reports
setup_cec(s, adapters, opened, addresses) ==
    LET s0 == Enter(s, "setup_cec", None)
        s1 == Emit(s0, Call("ICECAdapter.Create", CEC_DEVICE_TYPE_RECORDING_DEVICE))
        s2 == [s1 EXCEPT !.assigned = @ \cup {"remote"}]
        s3 == Emit(s2, CallRet("DetectAdapters", None, adapters))
    IN  IF adapters = 0
        THEN LET s4 == Emit(s3, Call("speak_dialog", "display.not.available"))
             IN  [s4 EXCEPT !.display = FALSE, !.assigned = @ \cup {"display"}]
        ELSE LET s4 == [s3 EXCEPT !.display = TRUE, !.assigned = @ \cup {"display"}]
                 s5 == Emit(s4, CallRet("Open", 1, opened))
                 s6 == Emit(s5, CallRet("GetActiveDevices", None, addresses))
                 s7 == QueryDevices(s6, addresses, 0)
             IN  [s7 EXCEPT !.display_id = TV, !.assigned = @ \cup {"display_id"}]

\* the loop of initialize over the keys of cams, from the i-th name on
RECURSIVE RegisterVocabulary(_, _)
RegisterVocabulary(s, i) ==
    IF i > Len(AllNames) THEN s
    ELSE IF AllNames[i] \in DOMAIN s.cams
    THEN RegisterVocabulary(
             Emit(s, [op |-> "register_vocabulary", arg |-> AllNames[i],
                      internal |-> FALSE, type |-> "location"]), i + 1)
    ELSE RegisterVocabulary(s, i + 1)

initialize(s, adapters, opened, addresses) ==
    LET s0 == Enter(s, "initialize", None)
        s1 == [s0 EXCEPT !.registered = @ \cup {"CameraSkill.ViewPortStatus",
                                                "CameraSkill.EndProcess"}]
        s2 == [s1 EXCEPT !.registered = @ \cup {"skill.camera.showcam"}]
        s3 == RegisterVocabulary(s2, 1)
    IN  setup_cec(s3, adapters, opened, addresses)

Init ==
    /\ pc = "constructed"
    /\ cams \in CamConfigs
    /\ \E home \in Homes : save_folder = expanduser(home)
    /\ camera_mode = None
    /\ display = FALSE /\ display_id = 0 /\ display_status = None
    /\ assigned = {}
    /\ registered = {}
    /\ gui = EmptyDict
    /\ event = "__init__" /\ message = EmptyDict
    /\ calls = <<>> /\ raised = "none"
    /\ lastPowerRead = -1 /\ streamSinceStandby = FALSE

\* ------------------------------------------------------------- the events
Has(cs, op) == \E i \in 1..Len(cs) : cs[i].op = op

\* the state an event leaves, with what the event was and the two histories
Commit(r, ev, data) ==
    /\ cams' = r.cams /\ save_folder' = r.save_folder /\ camera_mode' = r.camera_mode
    /\ display' = r.display /\ display_id' = r.display_id
    /\ display_status' = r.display_status /\ assigned' = r.assigned
    /\ registered' = r.registered /\ gui' = r.gui
    /\ event' = ev /\ message' = data
    /\ calls' = r.calls /\ raised' = r.raised
    /\ lastPowerRead' =
         IF \E i \in 1..(Len(r.calls) - 1) :
                r.calls[i].op = "show_stream" /\ r.calls[i+1].op = "GetDevicePowerStatus"
         THEN LET i == CHOOSE j \in 1..(Len(r.calls) - 1) :
                          r.calls[j].op = "show_stream"
                          /\ r.calls[j+1].op = "GetDevicePowerStatus"
              IN  r.calls[i+1].ret
         ELSE lastPowerRead
    /\ streamSinceStandby' =
         IF Has(r.calls, "StandbyDevices") THEN FALSE
         ELSE IF Has(r.calls, "show_stream") THEN TRUE
         ELSE streamSinceStandby

StreamCamData ==
    { d \in UNION {[K -> {"show", "peek", Unconfigured} \cup CamNames] :
                      K \in SUBSET {"view", "view.short", "location"}} :
        /\ DOMAIN d \cap {"view", "view.short"} # {}
        /\ "view" \in DOMAIN d => d["view"] = "show"
        /\ "view.short" \in DOMAIN d => d["view.short"] = "peek"
        /\ "location" \in DOMAIN d => d["location"] \in CamNames \cup {Unconfigured} }

ShowCamData ==
    {EmptyDict} \cup {[utterance |-> n] : n \in CamNames \cup {Unconfigured}}

StatusData ==
    {EmptyDict} \cup {[status |-> st] :
                         st \in {"generic", "imagetaken", "singleshot", "recording"}}

Initialize ==
    /\ pc = "constructed"
    /\ \E adapters \in 0..MaxAdapters, opened \in BOOLEAN,
          addresses \in SUBSET (0..(NumDevices - 1)) :
          Commit(initialize(Self, adapters, opened, addresses), "initialize", EmptyDict)
    /\ pc' = "running"

CaptureSingleShotIntent ==
    /\ pc = "running"
    /\ Commit(handle_capture_single_shot(Self), "CaptureSingleShot.intent", EmptyDict)
    /\ UNCHANGED pc

OpenCameraIntent ==
    /\ pc = "running"
    /\ Commit(handle_open_camera(Self), "OpenCamera.intent", EmptyDict)
    /\ UNCHANGED pc

CompleteCamIntent ==
    /\ pc = "running"
    /\ Commit(handle_camera_completed(Self), "CompleteCam", EmptyDict)
    /\ UNCHANGED pc

StreamCamIntent ==
    /\ pc = "running"
    /\ \E data \in StreamCamData, power \in PowerCodes, ok \in BOOLEAN :
          Commit(handle_get_stream(Self, data, power, ok), "StreamCam", data)
    /\ UNCHANGED pc

ViewPortStatus ==
    /\ pc = "running" /\ "CameraSkill.ViewPortStatus" \in registered
    /\ \E data \in StatusData :
          Commit(handle_camera_status(Self, data), "CameraSkill.ViewPortStatus", data)
    /\ UNCHANGED pc

EndProcess ==
    /\ pc = "running" /\ "CameraSkill.EndProcess" \in registered
    /\ Commit(handle_camera_completed(Self), "CameraSkill.EndProcess", EmptyDict)
    /\ UNCHANGED pc

ShowCam ==
    /\ pc = "running" /\ "skill.camera.showcam" \in registered
    /\ \E data \in ShowCamData, power \in PowerCodes, ok \in BOOLEAN :
          Commit(handle_stream(Self, data, power, ok), "skill.camera.showcam", data)
    /\ UNCHANGED pc

TakeSinglePhoto ==
    /\ pc = "running"
    /\ Commit(take_single_photo(Self), "take_single_photo", EmptyDict)
    /\ UNCHANGED pc

OpenCameraApp ==
    /\ pc = "running"
    /\ Commit(open_camera_app(Self), "open_camera_app", EmptyDict)
    /\ UNCHANGED pc

Stop ==
    /\ pc = "running"
    /\ Commit(stop(Self), "stop", EmptyDict)
    /\ UNCHANGED pc

Next ==
    \/ Initialize
    \/ CaptureSingleShotIntent
    \/ OpenCameraIntent
    \/ CompleteCamIntent
    \/ StreamCamIntent
    \/ ViewPortStatus
    \/ EndProcess
    \/ ShowCam
    \/ TakeSinglePhoto
    \/ OpenCameraApp
    \/ Stop

Spec == Init /\ [][Next]_vars

\* ------------------------------------------------------------- properties
Ext(cs) == SelectSeq(cs, LAMBDA c : ~c.internal)      \* the calls that leave the skill
Count(cs, op) == Cardinality({i \in 1..Len(cs) : cs[i].op = op})
Range(f) == {f[k] : k \in DOMAIN f}
CEC_POWER_STATUS_STANDBY == 1

CecOps == {"Open", "GetActiveDevices", "GetDeviceVendorId", "GetDeviceCecVersion",
           "GetDevicePowerStatus", "GetDevicePhysicalAddress", "IsActiveSource",
           "GetDeviceOSDName", "SetActiveSource", "StandbyDevices"}

DetectedNone ==
    /\ event = "initialize"
    /\ \E i \in 1..Len(calls) : calls[i].op = "DetectAdapters" /\ calls[i].ret = 0

\* C1: when setup_cec detects no CEC adapter it speaks display.not.available once,
\* sets the display flag to False, and neither opens an adapter nor queries a device.
C1_NoAdapterFallback ==
    DetectedNone =>
        /\ "display" \in assigned /\ display = FALSE
        /\ Count(calls, "speak_dialog") = 1
        /\ \E i \in 1..Len(calls) :
              calls[i].op = "speak_dialog" /\ calls[i].arg = "display.not.available"
        /\ \A i \in 1..Len(calls) : calls[i].op \notin CecOps
        /\ raised = "none"

C1_Witness == DetectedNone /\ pc = "running" /\ Has(calls, "setup_cec")

\* C2: with the display flag False, the StreamCam intent speaks display.not.available
\* and does nothing else (no CEC command, no GUI call, no sleep), whatever the
\* message holds.
C2_NoDisplayOnlySpeaks ==
    (event = "StreamCam" /\ ~display) =>
        /\ Len(Ext(calls)) = 1
        /\ Ext(calls)[1].op = "speak_dialog"
        /\ Ext(calls)[1].arg = "display.not.available"
        /\ ~Has(calls, "show_stream")
        /\ raised = "none"

C2_Witness ==
    /\ event = "StreamCam" /\ ~display
    /\ Get(message, "location", None) \in DOMAIN cams
    /\ "view.short" \in DOMAIN message

\* C3: with the display available, a StreamCam intent naming a camera without a URL
\* speaks stream.no_config for that name and does not run show_stream; an intent
\* without a camera name speaks stream.not_specified and shows nothing either.
C3_NoUrlFallback ==
    (event = "StreamCam" /\ display) =>
        LET cam_name == Get(message, "location", None)
            only == Ext(calls)
        IN  /\ cam_name = None =>
                /\ Len(only) = 1 /\ only[1].op = "speak_dialog"
                /\ only[1].arg = "stream.not_specified"
                /\ ~Has(calls, "show_stream")
            /\ (cam_name # None /\ Get(cams, cam_name, "") = "") =>
                /\ Len(only) = 1 /\ only[1].op = "speak_dialog"
                /\ only[1].arg = "stream.no_config" /\ only[1].cam = cam_name
                /\ ~Has(calls, "show_stream")

C3_Witness ==
    /\ event = "StreamCam" /\ display
    /\ Get(message, "location", None) \in DOMAIN cams
    /\ cams[message["location"]] = ""
    /\ Has(calls, "speak_dialog")

\* C4: the camera mapping is read-only at runtime: no event changes self.cams.
C4_CamsReadOnly == [][cams' = cams]_vars

C4_Witness ==
    /\ event \in {"StreamCam", "skill.camera.showcam"} /\ Has(calls, "show_url")
    /\ cams # EmptyDict

\* C5: a show_stream with a numeric idle sleeps idle-2 seconds and then runs
\* handle_camera_completed exactly once (remove_page, release), whether or not
\* SetActiveSource succeeded; a show_stream with idle True neither sleeps nor closes.
C5_TimedViewClosesItself ==
    \A i \in 1..Len(calls) :
        calls[i].op = "show_stream" =>
            IF calls[i].arg # IdleTrue
            THEN /\ Count(calls, "sleep") = 1
                 /\ Count(calls, "handle_camera_completed") = 1
                 /\ \E j \in (i + 1)..(Len(calls) - 3) :
                       /\ calls[j].op = "sleep" /\ calls[j].arg = calls[i].arg - SleepMargin
                       /\ calls[j+1].op = "handle_camera_completed"
                       /\ calls[j+2].op = "remove_page"
                       /\ calls[j+3].op = "release"
            ELSE /\ ~Has(calls, "sleep")
                 /\ ~Has(calls, "handle_camera_completed")
                 /\ ~Has(calls, "remove_page")

\* C6: singleshot_mode is True after CaptureSingleShot or take_single_photo and False
\* after OpenCamera or open_camera_app, both having shown Camera.qml with save_path
\* set to the save folder; a GUI status event sets it True for singleshot, False for
\* generic or imagetaken, and leaves the GUI data unchanged for any other status.
C6_ModeAfterRequest ==
    /\ event \in {"CaptureSingleShot.intent", "take_single_photo"} =>
          /\ "singleshot_mode" \in DOMAIN gui /\ gui["singleshot_mode"] = TRUE
    /\ event \in {"OpenCamera.intent", "open_camera_app"} =>
          /\ "singleshot_mode" \in DOMAIN gui /\ gui["singleshot_mode"] = FALSE
    /\ event \in {"CaptureSingleShot.intent", "take_single_photo",
                  "OpenCamera.intent", "open_camera_app"} =>
          /\ "save_path" \in DOMAIN gui /\ gui["save_path"] = save_folder
          /\ \E i \in 1..Len(calls) :
                calls[i].op = "show_page" /\ calls[i].arg = "Camera.qml"

C6_StatusStep ==
    event' = "CameraSkill.ViewPortStatus" =>
        LET st == Get(message', "status", None)
        IN  gui' = CASE st = "singleshot" -> Put(gui, "singleshot_mode", TRUE)
                     [] st \in {"generic", "imagetaken"} -> Put(gui, "singleshot_mode", FALSE)
                     [] OTHER -> gui

C6_SingleshotMode == []C6_ModeAfterRequest /\ [][C6_StatusStep]_vars

C6_Witness ==
    /\ event = "CameraSkill.ViewPortStatus"
    /\ Get(message, "status", None) = "imagetaken"
    /\ "save_path" \in DOMAIN gui
    /\ gui["singleshot_mode"] = FALSE

\* C7: handle_camera_completed first removes Camera.qml and releases the GUI, and it
\* issues StandbyDevices, on the TV (0), exactly when the power status read by the
\* most recent show_stream was standby.
C7_StandbyIffWasStandby ==
    \A i \in 1..Len(calls) :
        calls[i].op = "handle_camera_completed" =>
            /\ Len(calls) >= i + 2
            /\ calls[i+1].op = "remove_page" /\ calls[i+1].arg = "Camera.qml"
            /\ calls[i+2].op = "release"
            /\ (\E j \in (i + 3)..Len(calls) : calls[j].op = "StandbyDevices")
                  <=> lastPowerRead = CEC_POWER_STATUS_STANDBY
            /\ \A j \in 1..Len(calls) :
                  calls[j].op = "StandbyDevices" => j > i + 2 /\ calls[j].arg = 0

C7_Witness ==
    /\ event = "CameraSkill.EndProcess"
    /\ Has(calls, "StandbyDevices")
    /\ lastPowerRead = CEC_POWER_STATUS_STANDBY

\* C8: after initialize no handler reads display_status or display_id (or any other
\* attribute) before it has been assigned.
C8_NoUnsetAttributeRead == pc = "running" => raised = "none"

\* C9: every gui.show_url passes a URL that is a value of the camera mapping, in a
\* state where the display flag is True.
C9_ShowUrlConfigured ==
    \A i \in 1..Len(calls) :
        calls[i].op = "show_url" =>
            /\ calls[i].arg \in Range(cams)
            /\ "display" \in assigned /\ display = TRUE

\* C10: between two consecutive StandbyDevices commands there is always a show_stream
\* call: an event that issues StandbyDevices either runs show_stream itself or
\* follows a show_stream that no StandbyDevices has followed yet.
C10_StandbyOncePerStream ==
    [][Has(calls', "StandbyDevices") =>
          (Has(calls', "show_stream") \/ streamSinceStandby)]_vars
====
